---- MODULE Spec2Model ----
(***************************************************************************)
(* gyt: a progress-tracking CLI keeping three JSON documents               *)
(* (.gyt/staging.json, .gyt/commits.json, .gyt/config.json).               *)
(*                                                                         *)
(* Text (str) is a sequence of character codes, so that str.split,         *)
(* datetime.isoformat and hashlib.sha256 are computed as the code computes *)
(* them.  Optional[str] is a sequence of length 0 (None) or 1.  A document *)
(* is the JSON value json.loads would return for the file's text.          *)
(*                                                                         *)
(* Four specifications share the variables:                                *)
(*   Spec      the CLI commands, each run to completion, one at a time;    *)
(*   SpecApi   the methods of Repository called one at a time, on a        *)
(*             repository whose init may have stopped part-way;            *)
(*   SpecConc  two invocations of add / commit interleaved at the level    *)
(*             of single file accesses;                                    *)
(*   SpecStop  invocations run one after another that may be stopped       *)
(*             between two file accesses.                                  *)
(***************************************************************************)
EXTENDS Integers, Sequences, FiniteSets, TLC

(* ------------------------------ bounds -------------------------------- *)
\* the clock runs over days 0..MaxClock
MaxClock == 1
\* milestones ever staged in one run
MaxMilestones == 2
\* length of the history in one run
MaxCommits == 2
\* log --limit ranges over 0..MaxLimit
MaxLimit == 1

(* ------------------------------- text --------------------------------- *)
None == << >>
Some(s) == <<s>>
Truthy(o) == o # None /\ o[1] # << >>   \* Python truthiness of Optional[str]

Dot == 46
S_a == <<97>>   \* "a"
S_dot == <<46>>   \* "."
S_daily == <<68, 97, 105, 108, 121, 32, 112, 114, 111, 103, 114, 101, 115, 115>>   \* "Daily progress"
S_m1 == <<109, 49>>   \* "m1"
S_x == <<120>>   \* "x"
K_user == <<117, 115, 101, 114>>   \* "user"
K_name == <<110, 97, 109, 101>>   \* "name"
K_email == <<101, 109, 97, 105, 108>>   \* "email"
K_remote == <<114, 101, 109, 111, 116, 101>>   \* "remote"
K_url == <<117, 114, 108>>   \* "url"
S_user_name_first == <<117, 115, 101, 114, 46, 110, 97, 109, 101, 46, 102, 105, 114, 115, 116>>   \* "user.name.first"
S_a_b == <<97, 46, 98>>   \* "a.b"
S_remote_url == <<114, 101, 109, 111, 116, 101, 46, 117, 114, 108>>   \* "remote.url"

(* ------------------------- hashlib.sha256 ------------------------------ *)
Sha256K ==
  <<
    <<17034, 12184>>, <<28983, 17553>>, <<46528, 64463>>, <<59829, 56229>>,
    <<14678, 49755>>, <<23025, 4593>>, <<37439, 33444>>, <<43804, 24277>>,
    <<55303, 43672>>, <<4739, 23297>>, <<9265, 34238>>, <<21772, 32195>>,
    <<29374, 23924>>, <<32990, 45566>>, <<39900, 1703>>, <<49563, 61812>>,
    <<58523, 27073>>, <<61374, 18310>>, <<4033, 40390>>, <<9228, 41420>>,
    <<11753, 11375>>, <<19060, 33962>>, <<23728, 43484>>, <<30457, 35034>>,
    <<38974, 20818>>, <<43057, 50797>>, <<45059, 10184>>, <<48985, 32711>>,
    <<50912, 3059>>, <<54695, 37191>>, <<1738, 25425>>, <<5161, 10599>>,
    <<10167, 2693>>, <<11803, 8504>>, <<19756, 28156>>, <<21304, 3347>>,
    <<25866, 29524>>, <<30314, 2747>>, <<33218, 51502>>, <<37490, 11397>>,
    <<41663, 59553>>, <<43034, 26187>>, <<49739, 35696>>, <<51052, 20899>>,
    <<53650, 59417>>, <<54937, 1572>>, <<62478, 13701>>, <<4202, 41072>>,
    <<6564, 49430>>, <<7735, 27656>>, <<10056, 30540>>, <<13488, 48309>>,
    <<14620, 3251>>, <<20184, 43594>>, <<23452, 51791>>, <<26670, 28659>>,
    <<29839, 33518>>, <<30885, 25455>>, <<33992, 30740>>, <<36039, 520>>,
    <<37054, 65530>>, <<42064, 27883>>, <<48889, 41975>>, <<50801, 30962>>
  >>

Sha256H0 ==
  <<
    <<27145, 58983>>, <<47975, 44677>>, <<15470, 62322>>, <<42319, 62778>>,
    <<20750, 21119>>, <<39685, 26764>>, <<8067, 55723>>, <<23520, 52505>>
  >>

RECURSIVE BitXor(_, _, _)
BitXor(a, b, n) ==
  IF n = 0 THEN 0
  ELSE (((a % 2) + (b % 2)) % 2) + 2 * BitXor(a \div 2, b \div 2, n - 1)

RECURSIVE BitAnd(_, _, _)
BitAnd(a, b, n) ==
  IF n = 0 THEN 0
  ELSE ((a % 2) * (b % 2)) + 2 * BitAnd(a \div 2, b \div 2, n - 1)

XorNibble == [a \in 0..15 |-> [b \in 0..15 |-> BitXor(a, b, 4)]]
AndNibble == [a \in 0..15 |-> [b \in 0..15 |-> BitAnd(a, b, 4)]]

Xor16(a, b) ==
  XorNibble[a % 16][b % 16]
  + 16 * XorNibble[(a \div 16) % 16][(b \div 16) % 16]
  + 256 * XorNibble[(a \div 256) % 16][(b \div 256) % 16]
  + 4096 * XorNibble[a \div 4096][b \div 4096]

And16(a, b) ==
  AndNibble[a % 16][b % 16]
  + 16 * AndNibble[(a \div 16) % 16][(b \div 16) % 16]
  + 256 * AndNibble[(a \div 256) % 16][(b \div 256) % 16]
  + 4096 * AndNibble[a \div 4096][b \div 4096]

WXor(x, y) == <<Xor16(x[1], y[1]), Xor16(x[2], y[2])>>
WAnd(x, y) == <<And16(x[1], y[1]), And16(x[2], y[2])>>
WNot(x) == <<65535 - x[1], 65535 - x[2]>>
WAdd(x, y) ==
  LET lo == x[2] + y[2]
      hi == x[1] + y[1] + (lo \div 65536)
  IN  <<hi % 65536, lo % 65536>>

Pow2(n) == 2 ^ n

RotR(x, n) ==
  LET y == IF n >= 16 THEN <<x[2], x[1]>> ELSE x
      k == n % 16
  IN  IF k = 0 THEN y
      ELSE <<(y[1] \div Pow2(k)) + (y[2] % Pow2(k)) * Pow2(16 - k),
             (y[2] \div Pow2(k)) + (y[1] % Pow2(k)) * Pow2(16 - k)>>

ShR(x, n) ==
  IF n >= 16 THEN <<0, x[1] \div Pow2(n - 16)>>
  ELSE <<x[1] \div Pow2(n), (x[2] \div Pow2(n)) + (x[1] % Pow2(n)) * Pow2(16 - n)>>

BigSigma0(x) == WXor(WXor(RotR(x, 2), RotR(x, 13)), RotR(x, 22))
BigSigma1(x) == WXor(WXor(RotR(x, 6), RotR(x, 11)), RotR(x, 25))
SmallSigma0(x) == WXor(WXor(RotR(x, 7), RotR(x, 18)), ShR(x, 3))
SmallSigma1(x) == WXor(WXor(RotR(x, 17), RotR(x, 19)), ShR(x, 10))
Ch(x, y, z) == WXor(WAnd(x, y), WAnd(WNot(x), z))
Maj(x, y, z) == WXor(WXor(WAnd(x, y), WAnd(x, z)), WAnd(y, z))

\* message padding: 0x80, zeros up to 56 mod 64, 64-bit big-endian bit length
Zeros(n) == [i \in 1..n |-> 0]

Sha256Pad(bytes) ==
  LET n == Len(bytes)
      z == (119 - (n % 64)) % 64
      bits == 8 * n
  IN  bytes \o <<128>> \o Zeros(z) \o <<0, 0, 0, 0>>
      \o <<(bits \div 16777216) % 256, (bits \div 65536) % 256,
           (bits \div 256) % 256, bits % 256>>

BlockWords(p, b) ==
  [i \in 1..16 |->
     LET o == 64 * b + 4 * (i - 1)
     IN  <<p[o + 1] * 256 + p[o + 2], p[o + 3] * 256 + p[o + 4]>>]

RECURSIVE Schedule(_)
Schedule(w) ==
  IF Len(w) >= 64 THEN w
  ELSE LET t == Len(w) + 1
       IN  Schedule(Append(w, WAdd(WAdd(SmallSigma1(w[t - 2]), w[t - 7]),
                                   WAdd(SmallSigma0(w[t - 15]), w[t - 16]))))

Round(s, w, t) ==
  LET t1 == WAdd(WAdd(WAdd(s[8], BigSigma1(s[5])), WAdd(Ch(s[5], s[6], s[7]), Sha256K[t])), w[t])
      t2 == WAdd(BigSigma0(s[1]), Maj(s[1], s[2], s[3]))
  IN  <<WAdd(t1, t2), s[1], s[2], s[3], WAdd(s[4], t1), s[5], s[6], s[7]>>

RECURSIVE Rounds(_, _)
Rounds(hist, w) ==
  IF Len(hist) > 64 THEN hist[65]
  ELSE Rounds(Append(hist, Round(hist[Len(hist)], w, Len(hist))), w)

Compress(h, blk) ==
  LET s == Rounds(<<h>>, Schedule(blk))
  IN  [i \in 1..8 |-> WAdd(h[i], s[i])]

RECURSIVE Blocks(_, _, _)
Blocks(h, p, b) ==
  IF 64 * b >= Len(p) THEN h
  ELSE Blocks(Compress(h, BlockWords(p, b)), p, b + 1)

Sha256(bytes) == Blocks(Sha256H0, Sha256Pad(bytes), 0)

HexDigit(d) == IF d < 10 THEN 48 + d ELSE 87 + d
Hex16(v) == <<HexDigit(v \div 4096), HexDigit((v \div 256) % 16),
              HexDigit((v \div 16) % 16), HexDigit(v % 16)>>
\* hexdigest()[:8]
HexDigest8(bytes) == LET h == Sha256(bytes) IN Hex16(h[1][1]) \o Hex16(h[1][2])


(* ----------------------------- datetime -------------------------------- *)
\* A datetime is the number of whole days since 2024-01-01T00:00:00.
Digit(d) == 48 + d
TwoDigits(n) == <<Digit(n \div 10), Digit(n % 10)>>
IsoDatePrefix == <<50, 48, 50, 52, 45, 48, 49, 45>>        \* "2024-01-"
IsoMidnight == <<84, 48, 48, 58, 48, 48, 58, 48, 48>>      \* "T00:00:00"

\* datetime.isoformat()
isoformat(t) == IsoDatePrefix \o TwoDigits(t + 1) \o IsoMidnight

\* datetime.fromisoformat(s)
fromisoformat(s) == (s[9] - 48) * 10 + (s[10] - 48) - 1


(* ------------------------- commit messages ----------------------------- *)
CommitMessages == {S_m1}
DigestInputs == {isoformat(t) \o m : t \in 0..MaxClock, m \in CommitMessages}

\* hexdigest()[:8] of the texts add_commit hashes in a bounded run, computed once
DigestTable == [b \in DigestInputs |-> HexDigest8(b)]
hexdigest8(bytes) == IF bytes \in DOMAIN DigestTable THEN DigestTable[bytes] ELSE HexDigest8(bytes)

(* --------------------------- models.Milestone -------------------------- *)
\* Milestone(message=...): timestamp defaults to datetime.now(), tags to []
Milestone(message, clock) == [message |-> message, timestamp |-> clock, tags |-> << >>]

Milestone_to_dict(m) ==
  [message |-> m.message, timestamp |-> isoformat(m.timestamp), tags |-> m.tags]

Milestone_from_dict(data) ==
  [message |-> data.message,
   timestamp |-> fromisoformat(data.timestamp),
   tags |-> IF "tags" \in DOMAIN data THEN data.tags ELSE << >>]

(* ---------------------------- models.Commit ---------------------------- *)
\* a faulty Commit: the milestones are not taken over
Commit_without_milestones(message, milestones, clock) ==
  [message |-> message, timestamp |-> clock, milestones |-> << >>, commit_hash |-> None]

\* a faulty Commit: the first staged milestone is left out
Commit_dropping_first(message, milestones, clock) ==
  [message |-> message, milestones |-> Tail(milestones), timestamp |-> clock, commit_hash |-> None]

\* Commit(message=..., milestones=...): timestamp defaults to datetime.now(),
\* commit_hash to None
Commit(message, milestones, clock) ==
  [message |-> message, milestones |-> milestones, timestamp |-> clock, commit_hash |-> None]

Commit_to_dict(c) ==
  [message |-> c.message,
   milestones |-> [i \in 1..Len(c.milestones) |-> Milestone_to_dict(c.milestones[i])],
   timestamp |-> isoformat(c.timestamp),
   commit_hash |-> c.commit_hash]

Commit_from_dict(data) ==
  [message |-> data.message,
   milestones |-> [i \in 1..Len(data.milestones) |-> Milestone_from_dict(data.milestones[i])],
   timestamp |-> fromisoformat(data.timestamp),
   commit_hash |-> IF "commit_hash" \in DOMAIN data THEN data.commit_hash ELSE None]

(* --------------------------- models.Repository ------------------------- *)
\* A file is absent, or holds the text of a JSON value, or holds text that
\* json.loads rejects.  The staging and commits documents hold arrays; the
\* config document holds an object, written as the set of its nodes: one node
\* per key path, a "map" (nested object) or a "str" (leaf).  `bad` is << >>
\* when the text is that of `json`, and <<n>> when the file holds n bytes that
\* do not parse: none, between the open(..., "w") of write_text and the write
\* of the text, or the head of one text followed by the tail of a longer one.
AbsentArray == [exists |-> FALSE, json |-> << >>, bad |-> << >>]
AbsentObject == [exists |-> FALSE, json |-> {}, bad |-> << >>]
ArrayFile(a) == [exists |-> TRUE, json |-> a, bad |-> << >>]
ObjectFile(o) == [exists |-> TRUE, json |-> o, bad |-> << >>]

\* Path.write_text opens the file with mode "w": it exists and is empty
TruncatedArray == [exists |-> TRUE, json |-> << >>, bad |-> <<0>>]
TruncatedObject == [exists |-> TRUE, json |-> {}, bad |-> <<0>>]

\* json.loads(file.read_text()) raises JSONDecodeError
loads_fails(file) == file.exists /\ file.bad # << >>

\* len(json.dumps(..., indent=2)) of the dicts of milestones (no tags) whose
\* lines start after b spaces, joined by ",\n"
RECURSIVE MilestonesTextLen(_, _, _)
MilestonesTextLen(ms, i, b) ==
  IF i > Len(ms) THEN 0
  ELSE 5 * b + 52 + Len(ms[i].message) + Len(ms[i].timestamp)
       + (IF i < Len(ms) THEN 2 ELSE 0) + MilestonesTextLen(ms, i + 1, b)

\* len(json.dumps([m.to_dict() for m in staged], indent=2))
StagingTextLen(ms) == IF ms = << >> THEN 2 ELSE 4 + MilestonesTextLen(ms, 1, 2)

\* len(json.dumps([c.to_dict() for c in commits], indent=2))
RECURSIVE CommitDictsTextLen(_, _)
CommitDictsTextLen(cs, i) ==
  IF i > Len(cs) THEN 0
  ELSE 91 + Len(cs[i].message) + Len(cs[i].timestamp)
       + (IF cs[i].commit_hash = None THEN 2 ELSE Len(cs[i].commit_hash[1]))
       + (IF cs[i].milestones = << >> THEN 0
          ELSE 6 + MilestonesTextLen(cs[i].milestones, 1, 6))
       + (IF i < Len(cs) THEN 2 ELSE 0) + CommitDictsTextLen(cs, i + 1)

CommitsTextLen(cs) == IF cs = << >> THEN 2 ELSE 4 + CommitDictsTextLen(cs, 1)

\* the bytes a file holds
StagingSize(file) ==
  IF ~file.exists THEN 0 ELSE IF file.bad # << >> THEN file.bad[1] ELSE StagingTextLen(file.json)
CommitsSize(file) ==
  IF ~file.exists THEN 0 ELSE IF file.bad # << >> THEN file.bad[1] ELSE CommitsTextLen(file.json)

\* the write that ends write_text: the text goes to offset 0 of the file as it
\* is by then; where another writer has put a longer text there meanwhile, the
\* tail of that text stays behind the new one
staging_written(current, text) ==
  IF StagingSize(current) > StagingTextLen(text.json)
  THEN [TruncatedArray EXCEPT !.bad = <<StagingSize(current)>>]
  ELSE text
commits_written(current, text) ==
  IF CommitsSize(current) > CommitsTextLen(text.json)
  THEN [TruncatedArray EXCEPT !.bad = <<CommitsSize(current)>>]
  ELSE text

MapNode(p) == [path |-> p, kind |-> "map", val |-> << >>]
StrNode(p, v) == [path |-> p, kind |-> "str", val |-> v]

DefaultConfig ==
  {MapNode(<<K_user>>), StrNode(<<K_user, K_name>>, << >>), StrNode(<<K_user, K_email>>, << >>),
   MapNode(<<K_remote>>), StrNode(<<K_remote, K_url>>, << >>)}

\* a faulty init: it rewrites the documents of an existing repository
init_overwriting(fs) ==
  [ret |-> ~fs.dir,
   fs |-> [dir |-> TRUE, staging |-> ArrayFile(<< >>), commits |-> ArrayFile(<< >>),
           config |-> ObjectFile(DefaultConfig)]]

\* Repository.init: the files it writes, and its return value
init(fs) ==
  IF fs.dir THEN [ret |-> FALSE, fs |-> fs]
  ELSE [ret |-> TRUE,
        fs |-> [dir |-> TRUE, staging |-> ArrayFile(<< >>), commits |-> ArrayFile(<< >>),
                config |-> ObjectFile(DefaultConfig)]]

\* a faulty is_initialized: no check of .gyt
is_initialized_always(fs) == TRUE

is_initialized(fs) == fs.dir

get_staged_milestones(staging_file) ==
  IF ~staging_file.exists THEN << >>
  ELSE [i \in 1..Len(staging_file.json) |-> Milestone_from_dict(staging_file.json[i])]

\* a faulty write: only the newest milestone is written
write_staging_newest_only(staged) ==
  ArrayFile(<<Milestone_to_dict(staged[Len(staged)])>>)

\* staging_file.write_text(json.dumps([m.to_dict() for m in staged], indent=2))
write_staging(staged) ==
  ArrayFile([i \in 1..Len(staged) |-> Milestone_to_dict(staged[i])])

\* a faulty add_milestone: staged.insert(0, milestone)
add_milestone_in_front(staging_file, milestone) ==
  write_staging(<<milestone>> \o get_staged_milestones(staging_file))

\* add_milestone run without interruption: the file it leaves
add_milestone(staging_file, milestone) ==
  write_staging(Append(get_staged_milestones(staging_file), milestone))

clear_staging == ArrayFile(<< >>)

get_commits(commits_file) ==
  IF ~commits_file.exists THEN << >>
  ELSE [i \in 1..Len(commits_file.json) |-> Commit_from_dict(commits_file.json[i])]

\* a faulty hash: the timestamp is left out of hash_input
commit_hash_of_message_only(timestamp, message) == hexdigest8(message)

\* hashlib.sha256(f"{timestamp.isoformat()}{message}".encode()).hexdigest()[:8]
commit_hash_of(timestamp, message) == hexdigest8(isoformat(timestamp) \o message)

\* commit.commit_hash = ...
with_hash(commit) ==
  [commit EXCEPT !.commit_hash = Some(commit_hash_of(commit.timestamp, commit.message))]

\* commits_file.write_text(json.dumps([c.to_dict() for c in commits], indent=2))
write_commits(commits) ==
  ArrayFile([i \in 1..Len(commits) |-> Commit_to_dict(commits[i])])

\* a faulty add_commit: commits.insert(0, commit)
add_commit_in_front(commits_file, commit) ==
  [commit |-> with_hash(commit),
   file |-> write_commits(<<with_hash(commit)>> \o get_commits(commits_file))]

\* add_commit run without interruption: it mutates the commit it is given and
\* rewrites the commits file
add_commit(commits_file, commit) ==
  [commit |-> with_hash(commit),
   file |-> write_commits(Append(get_commits(commits_file), with_hash(commit)))]

\* a faulty get_config: a missing file reads as the default configuration
get_config_defaulting(config_file) ==
  IF ~config_file.exists THEN DefaultConfig ELSE config_file.json

get_config(config_file) == IF ~config_file.exists THEN {} ELSE config_file.json

\* str.split(".")
RECURSIVE SplitFrom(_, _, _)
SplitFrom(s, i, acc) ==
  IF i > Len(s) THEN <<acc>>
  ELSE IF s[i] = Dot THEN <<acc>> \o SplitFrom(s, i + 1, << >>)
  ELSE SplitFrom(s, i + 1, Append(acc, s[i]))

split(s) == SplitFrom(s, 1, << >>)

IsPrefix(p, q) == Len(p) <= Len(q) /\ SubSeq(q, 1, Len(p)) = p
HasNode(config, p) == \E n \in config : n.path = p
NodeAt(config, p) == CHOOSE n \in config : n.path = p

\* the loop of set_config over keys[:-1], from the mapping at path `at`:
\* a missing key gets an empty mapping; `current` becoming a str makes the
\* next statement executed on it raise TypeError
RECURSIVE walk(_, _, _, _)
walk(config, keys, i, at) ==
  IF i >= Len(keys) THEN [error |-> "", config |-> config, at |-> at]
  ELSE LET p == Append(at, keys[i])
       IN  IF ~HasNode(config, p) THEN walk(config \cup {MapNode(p)}, keys, i + 1, p)
           ELSE IF NodeAt(config, p).kind = "map" THEN walk(config, keys, i + 1, p)
           ELSE [error |-> "TypeError", config |-> config, at |-> p]

\* a faulty assignment: only the new entry and the mappings above it are kept
assign_alone(config, p, value) == {n \in config : IsPrefix(n.path, p) /\ n.path # p} \cup {StrNode(p, value)}

\* current[keys[-1]] = value: whatever the key held goes
assign(config, p, value) == {n \in config : ~IsPrefix(p, n.path)} \cup {StrNode(p, value)}

\* set_config: the error raised, if any, and the file afterwards
set_config(config_file, key, value) ==
  LET keys == split(key)
      w == walk(get_config(config_file), keys, 1, << >>)
  IN  IF loads_fails(config_file) THEN [error |-> "JSONDecodeError", file |-> config_file]
      ELSE IF w.error # "" THEN [error |-> w.error, file |-> config_file]
      ELSE [error |-> "",
            file |-> ObjectFile(assign(w.config, Append(w.at, keys[Len(keys)]), value))]

(* -------------------------------- state -------------------------------- *)
VARIABLES
  dir,            \* .gyt exists
  staging_file,   \* .gyt/staging.json
  commits_file,   \* .gyt/commits.json
  config_file,    \* .gyt/config.json
  clock,          \* datetime.now()
  cmd,            \* the command that ran last, with its arguments
  exit_code,      \* its exit code
  console,        \* the lines it printed
  result,         \* what it computed: return value, exception, rows shown
  procs           \* concurrent invocations: each one's position and locals

files == <<dir, staging_file, commits_file, config_file>>
documents == <<staging_file, commits_file, config_file>>
observed == <<cmd, exit_code, console, result>>
vars == <<dir, staging_file, commits_file, config_file, clock, cmd, exit_code, console, result, procs>>

NoArgs ==
  [name |-> "", message |-> None, all |-> FALSE, limit |-> 0, days |-> 0,
   key |-> None, value |-> None, remote |-> None]

NoValue == [kind |-> "", val |-> << >>, nodes |-> {}]
NoResult ==
  [ret |-> "", raised |-> "", commit |-> << >>, commits |-> << >>, milestones |-> << >>,
   table |-> << >>, value |-> NoValue]

\* two invocations of the CLI running at once against one repository
Procs == {1, 2}
Idle ==
  [pc |-> "idle", name |-> "", milestone |-> << >>, staged |-> << >>,
   commit |-> << >>, commits |-> << >>, exit_code |-> 0, raised |-> ""]

(* ------------------------------- inputs -------------------------------- *)
\* add's (message, --all) pairs
AddArgs ==
  {<<None, FALSE>>, <<Some(<< >>), FALSE>>, <<Some(S_a), FALSE>>, <<Some(S_dot), FALSE>>,
   <<Some(S_a), TRUE>>}
Limits == 0..MaxLimit
\* stats --days: the days the clock covers, and a span longer than the calendar
ManyDays == 800000
Days == (0..MaxClock) \cup {ManyDays}
\* config's (key, value) pairs: a value is only given after a key
ConfigKeys == {Some(S_a_b), Some(S_user_name_first), Some(S_remote_url)}
ConfigArgs ==
  {<<None, None>>, <<Some(S_a_b), Some(<< >>)>>} \cup (ConfigKeys \X {None, Some(S_x)})
Remotes == {None, Some(S_x)}

(* --------------------------------- cli --------------------------------- *)
\* A command runs from start to end with no other command in between.  A
\* document that json.loads cannot parse ends the command that reads it.
fs == [dir |-> dir, staging |-> staging_file, commits |-> commits_file, config |-> config_file]

RECURSIVE SumLen(_, _)
SumLen(cs, i) == IF i > Len(cs) THEN 0 ELSE Len(cs[i].milestones) + SumLen(cs, i + 1)
StoredMilestones == Len(staging_file.json) + SumLen(commits_file.json, 1)

\* ensure_repo: typer.Exit(1) when .gyt is missing
NotARepo(c) ==
  /\ ~is_initialized(fs)
  /\ cmd' = c
  /\ exit_code' = 1
  /\ console' = <<"Not a gyt repository. Run 'gyt init' first.">>
  /\ result' = NoResult
  /\ UNCHANGED <<files, clock, procs>>

\* json.loads raises in a command: the traceback, exit code 1
Unparsable ==
  /\ exit_code' = 1
  /\ console' = << >>
  /\ result' = [NoResult EXCEPT !.raised = "JSONDecodeError"]

cli_init ==
  LET r == init(fs)
  IN  /\ dir' = r.fs.dir
      /\ staging_file' = r.fs.staging
      /\ commits_file' = r.fs.commits
      /\ config_file' = r.fs.config
      /\ cmd' = [NoArgs EXCEPT !.name = "init"]
      /\ exit_code' = 0
      /\ console' = IF r.ret THEN <<"Initialized empty gyt repository in .gyt/">>
                    ELSE <<"Repository already initialized.">>
      /\ result' = [NoResult EXCEPT !.ret = IF r.ret THEN "True" ELSE "False"]
      /\ UNCHANGED <<clock, procs>>

\* a faulty add: the literal "." is staged as it is
milestone_message_literal(message, all) == IF all THEN S_daily ELSE message[1]

\* add: the message of the milestone it builds
milestone_message(message, all) ==
  IF all \/ message = Some(S_dot) THEN S_daily ELSE message[1]

cli_add(message, all) ==
  LET c == [NoArgs EXCEPT !.name = "add", !.message = message, !.all = all]
  IN  \/ NotARepo(c)
      \/ /\ is_initialized(fs)
         /\ cmd' = c
         /\ UNCHANGED <<dir, commits_file, config_file, clock, procs>>
         /\ IF (all \/ message = Some(S_dot) \/ Truthy(message)) /\ loads_fails(staging_file)
            THEN Unparsable /\ UNCHANGED staging_file
            ELSE IF all \/ message = Some(S_dot) \/ Truthy(message)
            THEN LET milestone == Milestone(milestone_message(message, all), clock)
                 IN  /\ StoredMilestones < MaxMilestones
                     /\ staging_file' = add_milestone(staging_file, milestone)
                     /\ exit_code' = 0
                     /\ console' = <<"Added milestone:">>
                     /\ result' = [NoResult EXCEPT !.milestones = <<milestone>>]
            ELSE /\ exit_code' = 1
                 /\ console' = <<"Please provide a milestone message or use --all/-a">>
                 /\ result' = NoResult
                 /\ UNCHANGED staging_file

\* a faulty commit: the emptiness test is missing
nothing_staged_never(staged) == FALSE

\* `if not staged:` of commit
nothing_staged(staged) == staged = << >>

cli_commit(message) ==
  LET c == [NoArgs EXCEPT !.name = "commit", !.message = Some(message)]
      staged == get_staged_milestones(staging_file)
  IN  \/ NotARepo(c)
      \/ /\ is_initialized(fs)
         /\ cmd' = c
         /\ UNCHANGED <<dir, config_file, clock, procs>>
         /\ IF loads_fails(staging_file)
            THEN Unparsable /\ UNCHANGED <<staging_file, commits_file>>
            ELSE IF nothing_staged(staged)
            THEN /\ exit_code' = 1
                 /\ console' = <<"No milestones staged. Use 'gyt add' first.">>
                 /\ result' = NoResult
                 /\ UNCHANGED <<staging_file, commits_file>>
            ELSE IF loads_fails(commits_file)
            THEN Unparsable /\ UNCHANGED <<staging_file, commits_file>>
            ELSE LET commit == Commit(message, staged, clock)
                     added == add_commit(commits_file, commit)
                 IN  /\ Len(commits_file.json) < MaxCommits
                     /\ commits_file' = added.file
                     /\ staging_file' = clear_staging
                     /\ exit_code' = 0
                     /\ console' = <<"Committed", "Commit hash:">>
                     /\ result' = [NoResult EXCEPT !.commit = <<commit, added.commit>>]

cli_status ==
  LET c == [NoArgs EXCEPT !.name = "status"]
      staged == get_staged_milestones(staging_file)
  IN  \/ NotARepo(c)
      \/ /\ is_initialized(fs)
         /\ cmd' = c
         /\ IF loads_fails(staging_file)
            THEN Unparsable
            ELSE /\ exit_code' = 0
                 /\ console' = <<"Gyt Status",
                                 IF staged # << >> THEN "Staged milestones:"
                                 ELSE "No milestones staged">>
                 /\ result' = [NoResult EXCEPT !.milestones = staged]
         /\ UNCHANGED <<files, clock, procs>>

\* seq[start:] of Python
SliceFrom(seq, start) ==
  LET n == Len(seq)
      s == IF start < 0 THEN (IF n + start < 0 THEN 0 ELSE n + start)
           ELSE (IF start > n THEN n ELSE start)
  IN  SubSeq(seq, s + 1, n)

reversed(seq) == [i \in 1..Len(seq) |-> seq[Len(seq) + 1 - i]]

cli_log(limit) ==
  LET c == [NoArgs EXCEPT !.name = "log", !.limit = limit]
      commits == get_commits(commits_file)
  IN  \/ NotARepo(c)
      \/ /\ is_initialized(fs)
         /\ cmd' = c
         /\ IF loads_fails(commits_file)
            THEN Unparsable
            ELSE IF commits = << >>
            THEN /\ exit_code' = 0
                 /\ console' = <<"No commits yet.">>
                 /\ result' = NoResult
            ELSE /\ exit_code' = 0
                 /\ console' = << >>
                 /\ result' = [NoResult EXCEPT !.commits = reversed(SliceFrom(commits, 0 - limit))]
         /\ UNCHANGED <<files, clock, procs>>

\* f"{a/b:.1f}" as tenths (ties to even, as for the exactly representable
\* quotients of the small counts of a bounded run)
Tenths(a, b) ==
  LET q == (10 * a) \div b
      r == (10 * a) % b
  IN  IF 2 * r > b \/ (2 * r = b /\ q % 2 = 1) THEN q + 1 ELSE q

\* the range of datetime: day 0 of the clock is date ordinal 738886
\* (2024-01-01), datetime.min is ordinal 1 and datetime.max is on ordinal
\* 3652059; a timedelta holds at most 999999999 days
OrdinalOfDay0 == 738886
MaxOrdinal == 3652059
MaxDeltaDays == 999999999

\* datetime.now() - timedelta(days=days)
minus_days(now, days) ==
  IF \/ days > MaxDeltaDays \/ days < 0 - MaxDeltaDays
     \/ OrdinalOfDay0 + now - days < 1
     \/ OrdinalOfDay0 + now - days > MaxOrdinal
  THEN [error |-> "OverflowError", value |-> 0]
  ELSE [error |-> "", value |-> now - days]

cli_stats(days) ==
  LET c == [NoArgs EXCEPT !.name = "stats", !.days = days]
      commits == get_commits(commits_file)
      cutoff == minus_days(clock, days)
      recent == SelectSeq(commits, LAMBDA x : x.timestamp >= cutoff.value)
      total_milestones == SumLen(recent, 1)
  IN  \/ NotARepo(c)
      \/ /\ is_initialized(fs)
         /\ cmd' = c
         /\ IF loads_fails(commits_file)
            THEN Unparsable
            ELSE IF commits = << >>
            THEN /\ exit_code' = 0
                 /\ console' = <<"No commits yet.">>
                 /\ result' = NoResult
            ELSE IF cutoff.error # ""
            THEN /\ exit_code' = 1
                 /\ console' = << >>
                 /\ result' = [NoResult EXCEPT !.raised = cutoff.error]
            ELSE /\ exit_code' = 0
                 /\ console' = IF recent # << >>
                               THEN <<"Total Commits", "Total Milestones", "Avg Milestones/Commit">>
                               ELSE <<"Total Commits", "Total Milestones">>
                 /\ result' = [NoResult EXCEPT !.table =
                                 IF recent # << >>
                                 THEN <<Len(recent), total_milestones, Tenths(total_milestones, Len(recent))>>
                                 ELSE <<Len(recent), total_milestones>>]
         /\ UNCHANGED <<files, clock, procs>>

\* the value a walk of `current = current.get(k, {})` ends on
StrValue(v) == [kind |-> "str", val |-> v, nodes |-> {}]
MapValue(config, p) ==
  [kind |-> "map", val |-> << >>,
   nodes |-> {[n EXCEPT !.path = SubSeq(n.path, Len(p) + 1, Len(n.path))] :
                n \in {m \in config : IsPrefix(p, m.path) /\ m.path # p}}]

RECURSIVE lookup(_, _, _, _, _)
lookup(config, keys, i, at, missing) ==
  IF i > Len(keys)
  THEN [error |-> "", value |-> IF missing THEN MapValue({}, << >>) ELSE MapValue(config, at)]
  ELSE LET p == Append(at, keys[i])
       IN  IF missing \/ ~HasNode(config, p) THEN lookup(config, keys, i + 1, at, TRUE)
           ELSE IF NodeAt(config, p).kind = "map" THEN lookup(config, keys, i + 1, p, FALSE)
           ELSE IF i = Len(keys) THEN [error |-> "", value |-> StrValue(NodeAt(config, p).val)]
           ELSE [error |-> "AttributeError", value |-> NoValue]

cli_config(key, value) ==
  LET c == [NoArgs EXCEPT !.name = "config", !.key = key, !.value = value]
  IN  \/ NotARepo(c)
      \/ /\ is_initialized(fs)
         /\ cmd' = c
         /\ UNCHANGED <<dir, staging_file, commits_file, clock, procs>>
         /\ IF Truthy(key) /\ Truthy(value)
            THEN LET s == set_config(config_file, key[1], value[1])
                 IN  /\ config_file' = s.file
                     /\ exit_code' = IF s.error = "" THEN 0 ELSE 1
                     /\ console' = IF s.error = "" THEN <<"Set">> ELSE << >>
                     /\ result' = [NoResult EXCEPT !.raised = s.error]
            ELSE IF loads_fails(config_file)
            THEN Unparsable /\ UNCHANGED config_file
            ELSE IF Truthy(key)
            THEN LET l == lookup(get_config(config_file), split(key[1]), 1, << >>, FALSE)
                 IN  /\ exit_code' = IF l.error = "" THEN 0 ELSE 1
                     /\ console' = IF l.error = "" THEN <<"key = value">> ELSE << >>
                     /\ result' = [NoResult EXCEPT !.raised = l.error, !.value = l.value]
                     /\ UNCHANGED config_file
            ELSE /\ exit_code' = 0
                 /\ console' = <<"json.dumps(config)">>
                 /\ result' = [NoResult EXCEPT !.value = MapValue(get_config(config_file), << >>)]
                 /\ UNCHANGED config_file

\* a faulty push: a remote named "x" is assumed when none is given
remote_url_assumed(remote, config) ==
  IF Truthy(remote) THEN [error |-> "", value |-> StrValue(remote[1])]
  ELSE [error |-> "", value |-> StrValue(S_x)]

\* remote or config.get("remote", {}).get("url", "")
remote_url(remote, config) ==
  LET section == lookup(config, <<K_remote>>, 1, << >>, FALSE).value
      url == IF section.kind = "str" THEN [error |-> "AttributeError", value |-> NoValue]
             ELSE IF \E n \in section.nodes : n.path = <<K_url>>
             THEN lookup(config, <<K_remote, K_url>>, 1, << >>, FALSE)
             ELSE [error |-> "", value |-> StrValue(<< >>)]
  IN  IF Truthy(remote) THEN [error |-> "", value |-> StrValue(remote[1])] ELSE url

cli_push(remote) ==
  LET c == [NoArgs EXCEPT !.name = "push", !.remote = remote]
      url == remote_url(remote, get_config(config_file))
      commits == get_commits(commits_file)
  IN  \/ NotARepo(c)
      \/ /\ is_initialized(fs)
         /\ cmd' = c
         /\ UNCHANGED <<files, clock, procs>>
         /\ IF loads_fails(config_file)
            THEN Unparsable
            ELSE IF url.error = "" /\ url.value # StrValue(<< >>) /\ url.value # MapValue({}, << >>)
                    /\ loads_fails(commits_file)
            THEN Unparsable
            ELSE IF url.error = "" /\ url.value # StrValue(<< >>) /\ url.value # MapValue({}, << >>)
            THEN /\ exit_code' = 0
                 /\ console' = IF commits = << >> THEN <<"No commits to push.">>
                               ELSE <<"Pushing", "Note: Remote push not yet implemented.">>
                 /\ result' = [NoResult EXCEPT !.value = url.value]
            ELSE /\ exit_code' = 1
                 /\ console' = IF url.error = ""
                               THEN <<"No remote configured. Use 'gyt config remote.url <url>' first.">>
                               ELSE << >>
                 /\ result' = [NoResult EXCEPT !.raised = url.error]

\* time passes between commands
Tick ==
  /\ clock < MaxClock
  /\ clock' = clock + 1
  /\ UNCHANGED <<files, observed, procs>>

Init ==
  /\ dir = FALSE
  /\ staging_file = AbsentArray
  /\ commits_file = AbsentArray
  /\ config_file = AbsentObject
  /\ clock = 0
  /\ cmd = NoArgs
  /\ exit_code = 0
  /\ console = << >>
  /\ result = NoResult
  /\ procs = [p \in Procs |-> Idle]

Next ==
  \/ cli_init
  \/ \E a \in AddArgs : cli_add(a[1], a[2])
  \/ \E message \in CommitMessages : cli_commit(message)
  \/ cli_status
  \/ \E limit \in Limits : cli_log(limit)
  \/ \E days \in Days : cli_stats(days)
  \/ \E a \in ConfigArgs : cli_config(a[1], a[2])
  \/ \E remote \in Remotes : cli_push(remote)
  \/ Tick

Spec == Init /\ [][Next]_vars

(* --------------------------- Repository calls -------------------------- *)
\* The methods of Repository called one at a time by any caller, on a
\* repository whose init may have been stopped part-way, so that .gyt can
\* exist with some of its documents missing or just opened and still empty;
\* push runs against the same files.

\* init stopped after mkdir and n of its writes (staging, then commits), and,
\* when `mid`, inside the next write_text, between its open and its write
init_stopped(f, n, mid) ==
  [f EXCEPT !.dir = TRUE,
            !.staging = IF n >= 1 THEN ArrayFile(<< >>)
                        ELSE IF mid THEN TruncatedArray ELSE @,
            !.commits = IF n >= 2 THEN ArrayFile(<< >>)
                        ELSE IF n = 1 /\ mid THEN TruncatedArray ELSE @,
            !.config = IF n = 2 /\ mid THEN TruncatedObject ELSE @]

\* dotted keys and the value given to set_config
ApiKeys == {S_a, S_a_b, S_remote_url}
ApiValues == {S_x}

Called(name, raised, res) ==
  /\ cmd' = [NoArgs EXCEPT !.name = name]
  /\ exit_code' = IF raised = "" THEN 0 ELSE 1
  /\ console' = << >>
  /\ result' = [res EXCEPT !.raised = raised]
  /\ UNCHANGED <<clock, procs>>

call_init ==
  LET r == init(fs)
  IN  /\ dir' = r.fs.dir
      /\ staging_file' = r.fs.staging
      /\ commits_file' = r.fs.commits
      /\ config_file' = r.fs.config
      /\ Called("Repository.init", "",
                [NoResult EXCEPT !.ret = IF r.ret THEN "True" ELSE "False"])

call_init_stopped(n, mid) ==
  LET f == init_stopped(fs, n, mid)
  IN  /\ ~dir
      /\ dir' = f.dir
      /\ staging_file' = f.staging
      /\ commits_file' = f.commits
      /\ config_file' = f.config
      /\ Called("Repository.init", "stopped", NoResult)

call_is_initialized ==
  /\ Called("Repository.is_initialized", "",
            [NoResult EXCEPT !.ret = IF is_initialized(fs) THEN "True" ELSE "False"])
  /\ UNCHANGED files

call_get_staged_milestones ==
  /\ IF loads_fails(staging_file)
     THEN Called("Repository.get_staged_milestones", "JSONDecodeError", NoResult)
     ELSE Called("Repository.get_staged_milestones", "",
                 [NoResult EXCEPT !.milestones = get_staged_milestones(staging_file)])
  /\ UNCHANGED files

\* write_text into a directory that does not exist raises FileNotFoundError
call_add_milestone(message) ==
  LET milestone == Milestone(message, clock)
      res == [NoResult EXCEPT !.milestones = <<milestone>>]
  IN  IF ~dir
      THEN Called("Repository.add_milestone", "FileNotFoundError", res) /\ UNCHANGED files
      ELSE IF loads_fails(staging_file)
      THEN Called("Repository.add_milestone", "JSONDecodeError", res) /\ UNCHANGED files
      ELSE /\ Len(get_staged_milestones(staging_file)) < MaxMilestones
           /\ staging_file' = add_milestone(staging_file, milestone)
           /\ Called("Repository.add_milestone", "", res)
           /\ UNCHANGED <<dir, commits_file, config_file>>

\* clear_staging reads nothing: it also replaces an unparsable file
call_clear_staging ==
  IF ~dir
  THEN Called("Repository.clear_staging", "FileNotFoundError", NoResult) /\ UNCHANGED files
  ELSE /\ staging_file' = clear_staging
       /\ Called("Repository.clear_staging", "", NoResult)
       /\ UNCHANGED <<dir, commits_file, config_file>>

call_get_commits ==
  /\ IF loads_fails(commits_file)
     THEN Called("Repository.get_commits", "JSONDecodeError", NoResult)
     ELSE Called("Repository.get_commits", "",
                 [NoResult EXCEPT !.commits = get_commits(commits_file)])
  /\ UNCHANGED files

\* the caller builds the Commit; add_commit reads the history, then sets the
\* hash, then writes
call_add_commit(message) ==
  LET commit == Commit(message, <<Milestone(S_a, clock)>>, clock)
      added == add_commit(commits_file, commit)
      res == [NoResult EXCEPT !.commit = <<commit, added.commit>>]
  IN  IF ~dir
      THEN Called("Repository.add_commit", "FileNotFoundError", res) /\ UNCHANGED files
      ELSE IF loads_fails(commits_file)
      THEN /\ Called("Repository.add_commit", "JSONDecodeError",
                     [NoResult EXCEPT !.commit = <<commit, commit>>])
           /\ UNCHANGED files
      ELSE /\ Len(get_commits(commits_file)) < MaxCommits
           /\ commits_file' = added.file
           /\ Called("Repository.add_commit", "", res)
           /\ UNCHANGED <<dir, staging_file, config_file>>

call_get_config ==
  /\ IF loads_fails(config_file)
     THEN Called("Repository.get_config", "JSONDecodeError", NoResult)
     ELSE Called("Repository.get_config", "",
                 [NoResult EXCEPT !.value = MapValue(get_config(config_file), << >>)])
  /\ UNCHANGED files

call_set_config(key, value) ==
  LET s == set_config(config_file, key, value)
      name == "Repository.set_config"
  IN  /\ cmd' = [NoArgs EXCEPT !.name = name, !.key = Some(key), !.value = Some(value)]
      /\ exit_code' = IF s.error = "" /\ dir THEN 0 ELSE 1
      /\ console' = << >>
      /\ result' = [NoResult EXCEPT !.raised = IF s.error # "" THEN s.error
                                               ELSE IF ~dir THEN "FileNotFoundError" ELSE ""]
      /\ config_file' = IF dir THEN s.file ELSE config_file
      /\ UNCHANGED <<dir, staging_file, commits_file, clock, procs>>

NextApi ==
  \/ call_init
  \/ \E n \in 0..2, mid \in BOOLEAN : call_init_stopped(n, mid)
  \/ call_is_initialized
  \/ call_get_staged_milestones
  \/ call_add_milestone(S_a)
  \/ call_clear_staging
  \/ call_get_commits
  \/ \E message \in CommitMessages : call_add_commit(message)
  \/ call_get_config
  \/ \E key \in ApiKeys, value \in ApiValues : call_set_config(key, value)
  \/ \E remote \in Remotes : cli_push(remote)
  \/ Tick

SpecApi == Init /\ [][NextApi]_vars

(* ------------------------ concurrent invocations ----------------------- *)
\* `add` and `commit` taken one file access at a time.  Each process runs one
\* command; nothing orders the file accesses of different processes.  A
\* write_text is two accesses: the open that empties the file, and the write
\* of the text.

\* add: ensure_repo, then the Milestone is built
add_start(p, message, all) ==
  /\ procs[p].pc = "idle"
  /\ is_initialized(fs)
  /\ all \/ message = Some(S_dot) \/ Truthy(message)
  /\ procs' = [procs EXCEPT ![p] =
       [Idle EXCEPT !.pc = "add_read", !.name = "add",
                    !.milestone = <<Milestone(milestone_message(message, all), clock)>>]]
  /\ UNCHANGED <<files, clock, observed>>

\* add_milestone: staged = self.get_staged_milestones()
\* an unparsable file ends the command with JSONDecodeError
add_read(p) ==
  /\ procs[p].pc = "add_read"
  /\ procs' = [procs EXCEPT ![p] =
       IF loads_fails(staging_file)
       THEN [@ EXCEPT !.pc = "done", !.exit_code = 1, !.raised = "JSONDecodeError"]
       ELSE [@ EXCEPT !.pc = "add_write", !.staged = get_staged_milestones(staging_file)]]
  /\ UNCHANGED <<files, clock, observed>>

\* add_milestone: staged.append(milestone); write_text opens staging.json
add_open(p) ==
  /\ procs[p].pc = "add_write"
  /\ staging_file' = TruncatedArray
  /\ procs' = [procs EXCEPT ![p].pc = "add_write_mid"]
  /\ UNCHANGED <<dir, commits_file, config_file, clock, observed>>

\* add_milestone: write_text writes the text of the new list
add_write(p) ==
  /\ procs[p].pc = "add_write_mid"
  /\ staging_file' = staging_written(staging_file,
       write_staging(Append(procs[p].staged, procs[p].milestone[1])))
  /\ procs' = [procs EXCEPT ![p].pc = "done"]
  /\ UNCHANGED <<dir, commits_file, config_file, clock, observed>>

\* a faulty commit: repo.clear_staging() comes before repo.add_commit(commit)
commit_after_clearing_first(pc) ==
  CASE pc = "commit_read_staging" -> "commit_clear"
    [] pc = "commit_clear" -> "commit_clear_mid"
    [] pc = "commit_clear_mid" -> "commit_read_commits"
    [] pc = "commit_read_commits" -> "commit_write"
    [] pc = "commit_write" -> "commit_write_mid"
    [] pc = "commit_write_mid" -> "done"

\* commit: the order of its file accesses after ensure_repo
commit_after(pc) ==
  CASE pc = "commit_read_staging" -> "commit_read_commits"
    [] pc = "commit_read_commits" -> "commit_write"
    [] pc = "commit_write" -> "commit_write_mid"
    [] pc = "commit_write_mid" -> "commit_clear"
    [] pc = "commit_clear" -> "commit_clear_mid"
    [] pc = "commit_clear_mid" -> "done"

\* commit: ensure_repo
commit_start(p, message) ==
  /\ procs[p].pc = "idle"
  /\ is_initialized(fs)
  /\ procs' = [procs EXCEPT ![p] =
       [Idle EXCEPT !.pc = "commit_read_staging", !.name = "commit",
                    !.commit = <<Commit(message, << >>, clock)>>]]
  /\ UNCHANGED <<files, clock, observed>>

\* commit: staged = repo.get_staged_milestones(), JSONDecodeError on an
\* unparsable file; exit 1 when empty; else the Commit is built
commit_read_staging(p) ==
  LET staged == get_staged_milestones(staging_file)
  IN  /\ procs[p].pc = "commit_read_staging"
      /\ procs' = [procs EXCEPT ![p] =
           IF loads_fails(staging_file)
           THEN [@ EXCEPT !.pc = "done", !.exit_code = 1, !.commit = << >>,
                          !.raised = "JSONDecodeError"]
           ELSE IF nothing_staged(staged)
           THEN [@ EXCEPT !.pc = "done", !.exit_code = 1, !.commit = << >>]
           ELSE [@ EXCEPT !.pc = commit_after("commit_read_staging"), !.staged = staged,
                          !.commit = <<Commit(@[1].message, staged, clock)>>]]
      /\ UNCHANGED <<files, clock, observed>>

\* add_commit: commits = self.get_commits(), JSONDecodeError on an unparsable
\* file; the hash is assigned
commit_read_commits(p) ==
  /\ procs[p].pc = "commit_read_commits"
  /\ procs' = [procs EXCEPT ![p] =
       IF loads_fails(commits_file)
       THEN [@ EXCEPT !.pc = "done", !.exit_code = 1, !.raised = "JSONDecodeError"]
       ELSE [@ EXCEPT !.pc = commit_after("commit_read_commits"),
                      !.commits = get_commits(commits_file),
                      !.commit = <<with_hash(@[1])>>]]
  /\ UNCHANGED <<files, clock, observed>>

\* add_commit: commits.append(commit); write_text opens commits.json
commit_open_commits(p) ==
  /\ procs[p].pc = "commit_write"
  /\ commits_file' = TruncatedArray
  /\ procs' = [procs EXCEPT ![p].pc = commit_after("commit_write")]
  /\ UNCHANGED <<dir, staging_file, config_file, clock, observed>>

\* a different commit: the milestones are read again when the commit is written
commit_write_rereading(p) ==
  /\ procs[p].pc = "commit_write_mid"
  /\ commits_file' = commits_written(commits_file,
       write_commits(Append(procs[p].commits,
         [procs[p].commit[1] EXCEPT !.milestones = get_staged_milestones(staging_file)])))
  /\ procs' = [procs EXCEPT ![p].pc = commit_after("commit_write_mid")]
  /\ UNCHANGED <<dir, staging_file, config_file, clock, observed>>

\* add_commit: write_text writes the text of the new history
commit_write(p) ==
  /\ procs[p].pc = "commit_write_mid"
  /\ commits_file' = commits_written(commits_file,
       write_commits(Append(procs[p].commits, procs[p].commit[1])))
  /\ procs' = [procs EXCEPT ![p].pc = commit_after("commit_write_mid")]
  /\ UNCHANGED <<dir, staging_file, config_file, clock, observed>>

\* commit: repo.clear_staging(): write_text opens staging.json
commit_open_staging(p) ==
  /\ procs[p].pc = "commit_clear"
  /\ staging_file' = TruncatedArray
  /\ procs' = [procs EXCEPT ![p].pc = commit_after("commit_clear")]
  /\ UNCHANGED <<dir, commits_file, config_file, clock, observed>>

\* commit: repo.clear_staging(): write_text writes "[]"
commit_clear(p) ==
  /\ procs[p].pc = "commit_clear_mid"
  /\ staging_file' = staging_written(staging_file, clear_staging)
  /\ procs' = [procs EXCEPT ![p].pc = commit_after("commit_clear_mid")]
  /\ UNCHANGED <<dir, commits_file, config_file, clock, observed>>

\* an initialized repository, possibly with one milestone already staged
InitConc ==
  /\ dir = TRUE
  /\ staging_file \in {ArrayFile(<< >>), write_staging(<<Milestone(S_x, 0)>>)}
  /\ commits_file = ArrayFile(<< >>)
  /\ config_file = ObjectFile(DefaultConfig)
  /\ clock = 0
  /\ cmd = NoArgs
  /\ exit_code = 0
  /\ console = << >>
  /\ result = NoResult
  /\ procs = [p \in Procs |-> Idle]

NextConc ==
  \/ \E p \in Procs, a \in AddArgs : add_start(p, a[1], a[2])
  \/ \E p \in Procs : add_read(p)
  \/ \E p \in Procs : add_open(p)
  \/ \E p \in Procs : add_write(p)
  \/ \E p \in Procs, message \in CommitMessages : commit_start(p, message)
  \/ \E p \in Procs : commit_read_staging(p)
  \/ \E p \in Procs : commit_read_commits(p)
  \/ \E p \in Procs : commit_open_commits(p)
  \/ \E p \in Procs : commit_write(p)
  \/ \E p \in Procs : commit_open_staging(p)
  \/ \E p \in Procs : commit_clear(p)
  \/ Tick

SpecConc == InitConc /\ [][NextConc]_vars

(* ------------------------ interrupted invocations ---------------------- *)
\* Invocations run one after another, one file access at a time, and any of
\* them may be stopped (killed, power lost) between two accesses, also between
\* the open and the write of a write_text, which leaves the file empty; a
\* later invocation then finds the files as the stopped one left them.

\* no other invocation is under way
Alone(p) == \A q \in Procs \ {p} : procs[q].pc \in {"idle", "done", "stopped"}

\* the process is stopped where it stands: each access it made has happened,
\* the others have not
stop(p) ==
  /\ procs[p].pc \notin {"idle", "done", "stopped"}
  /\ procs' = [procs EXCEPT ![p].pc = "stopped"]
  /\ UNCHANGED <<files, clock, observed>>

\* an initialized repository with nothing, one or two milestones staged
InitStop ==
  /\ dir = TRUE
  /\ staging_file \in {write_staging(SubSeq(<<Milestone(S_x, 0), Milestone(S_a, 0)>>, 1, n)) :
                         n \in 0..2}
  /\ commits_file = ArrayFile(<< >>)
  /\ config_file = ObjectFile(DefaultConfig)
  /\ clock = 0
  /\ cmd = NoArgs
  /\ exit_code = 0
  /\ console = << >>
  /\ result = NoResult
  /\ procs = [p \in Procs |-> Idle]

NextStop ==
  \/ \E p \in Procs, a \in AddArgs : Alone(p) /\ add_start(p, a[1], a[2])
  \/ \E p \in Procs : add_read(p)
  \/ \E p \in Procs : add_open(p)
  \/ \E p \in Procs : add_write(p)
  \/ \E p \in Procs, message \in CommitMessages : Alone(p) /\ commit_start(p, message)
  \/ \E p \in Procs : commit_read_staging(p)
  \/ \E p \in Procs : commit_read_commits(p)
  \/ \E p \in Procs : commit_open_commits(p)
  \/ \E p \in Procs : commit_write(p)
  \/ \E p \in Procs : commit_open_staging(p)
  \/ \E p \in Procs : commit_clear(p)
  \/ \E p \in Procs : stop(p)
  \/ Tick

SpecStop == InitStop /\ [][NextStop]_vars

(* ------------------------------- claims -------------------------------- *)
\* a step of the command `name` (time does not pass while a command runs)
Ran(name) == clock' = clock /\ cmd'.name = name

staged_now == get_staged_milestones(staging_file)
commits_now == get_commits(commits_file)

\* C1: in an initialized repository with staging S # <<>>, `commit -m m` leaves
\* staging empty and the commits document equal to what it was followed by one
\* new commit with message m and milestones S, in order.
C1_CommitMovesStaging ==
  [][(Ran("commit") /\ dir /\ staged_now # << >>) =>
       /\ exit_code' = 0
       /\ staging_file' = ArrayFile(<< >>)
       /\ Len(commits_file'.json) = Len(commits_file.json) + 1
       /\ SubSeq(commits_file'.json, 1, Len(commits_file.json)) = commits_file.json
       /\ LET new == get_commits(commits_file')[Len(commits_file'.json)]
          IN  /\ new.message = cmd'.message[1]
              /\ new.milestones = staged_now]_vars

C1_Witness ==
  /\ cmd.name = "commit" /\ exit_code = 0
  /\ staged_now = << >>
  /\ \E i \in 1..Len(commits_now) :
       /\ Len(commits_now[i].milestones) = 2
       /\ commits_now[i].milestones[1].message = S_a
       /\ commits_now[i].milestones[2].message = S_daily

\* C2: `commit` with empty staging in an initialized repository exits 1 and
\* writes no document.
C2_EmptyCommitFails ==
  [][(Ran("commit") /\ dir /\ staged_now = << >>) =>
       /\ exit_code' = 1
       /\ UNCHANGED documents]_vars

C2_Witness ==
  /\ cmd.name = "commit" /\ exit_code = 1 /\ dir
  /\ staged_now = << >>
  /\ Len(commits_now) >= 1

\* C3: each AddMilestone appends its milestone to the staging contents, so a
\* run of calls m1..mn leaves the earlier contents followed by m1..mn in call
\* order, each once.
C3_AddMilestoneAppends ==
  [][(Ran("add") /\ dir /\ exit_code' = 0) =>
       /\ Len(result'.milestones) = 1
       /\ get_staged_milestones(staging_file') = Append(staged_now, result'.milestones[1])]_vars

C3_Witness ==
  /\ cmd.name = "add" /\ exit_code = 0
  /\ Len(staged_now) = 2
  /\ staged_now[1].message = S_daily
  /\ staged_now[2].message = S_a
  /\ staged_now[1].timestamp < staged_now[2].timestamp

\* C4: Initialize without a state directory creates it with an empty staging
\* array, an empty commits array and the default config and returns true; with
\* a state directory it returns false and leaves the three documents alone.
C4_InitializeOnceOnly ==
  [][Ran("init") =>
       IF ~dir
       THEN /\ dir'
            /\ staging_file' = [exists |-> TRUE, json |-> << >>, bad |-> << >>]
            /\ commits_file' = [exists |-> TRUE, json |-> << >>, bad |-> << >>]
            /\ config_file'.exists /\ config_file'.bad = << >>
            /\ config_file'.json =
                 {[path |-> <<K_user>>, kind |-> "map", val |-> << >>],
                  [path |-> <<K_user, K_name>>, kind |-> "str", val |-> << >>],
                  [path |-> <<K_user, K_email>>, kind |-> "str", val |-> << >>],
                  [path |-> <<K_remote>>, kind |-> "map", val |-> << >>],
                  [path |-> <<K_remote, K_url>>, kind |-> "str", val |-> << >>]}
            /\ result'.ret = "True"
       ELSE /\ result'.ret = "False"
            /\ UNCHANGED files]_vars

C4_Witness ==
  /\ cmd.name = "init" /\ result.ret = "False"
  /\ Len(staged_now) >= 1
  /\ Len(commits_now) >= 1
  /\ HasNode(config_file.json, <<S_a, <<98>>>>)

\* C5: while .gyt is missing every command but init exits 1 and changes no
\* file, and only init creates .gyt.
C5_UninitializedGate ==
  [][/\ (clock' = clock /\ ~dir /\ cmd'.name # "init") =>
          (exit_code' = 1 /\ ~dir' /\ UNCHANGED files)
     /\ (~dir /\ dir') => Ran("init")]_vars

C5_Witness ==
  /\ ~dir
  /\ cmd.name = "add" /\ cmd.message = Some(S_a)
  /\ exit_code = 1
  /\ staging_file = AbsentArray

\* C6: two concurrent AddMilestone calls, each a read of the staging document
\* followed by an overwrite of it, both complete; a document that can be read
\* then holds what the last writer read followed by its milestone, so when
\* both read the same contents only one of the two milestones is persisted.
C6_LastWriterWins ==
  \A p, q \in Procs :
    (/\ p # q
     /\ procs[p].name = "add" /\ procs[p].pc = "done" /\ procs[p].exit_code = 0
     /\ procs[q].name = "add" /\ procs[q].pc = "done" /\ procs[q].exit_code = 0
     /\ ~loads_fails(staging_file)) =>
      /\ \/ staged_now = Append(procs[p].staged, procs[p].milestone[1])
         \/ staged_now = Append(procs[q].staged, procs[q].milestone[1])
      /\ procs[p].staged = procs[q].staged => Len(staged_now) = Len(procs[p].staged) + 1
      /\ procs[p].staged # procs[q].staged =>
           \/ staged_now = procs[p].staged \o <<procs[p].milestone[1], procs[q].milestone[1]>>
           \/ staged_now = procs[q].staged \o <<procs[q].milestone[1], procs[p].milestone[1]>>

\* both calls completed and the first process's milestone is gone
C6_Witness ==
  /\ procs[1].name = "add" /\ procs[1].pc = "done" /\ procs[1].exit_code = 0
  /\ procs[2].name = "add" /\ procs[2].pc = "done" /\ procs[2].exit_code = 0
  /\ procs[1].milestone[1].message = S_a
  /\ procs[2].milestone[1].message = S_daily
  /\ procs[1].staged = procs[2].staged
  /\ ~loads_fails(staging_file)
  /\ staged_now = Append(procs[2].staged, procs[2].milestone[1])
  /\ Len(staged_now) = 2
  /\ staged_now[1].message = S_x
  /\ staged_now[2].message = S_daily

\* C7: SetConfig(k, v) never fails, and afterwards walking the segments of k in
\* the configuration reaches v through mappings.
C7_SetConfigAlwaysSucceeds ==
  [][(Ran("config") /\ dir /\ Truthy(cmd'.key) /\ Truthy(cmd'.value)) =>
       LET keys == split(cmd'.key[1])
           config == get_config(config_file')
       IN  /\ exit_code' = 0
           /\ result'.raised = ""
           /\ \A i \in 1..(Len(keys) - 1) :
                MapNode(SubSeq(keys, 1, i)) \in config
           /\ StrNode(keys, cmd'.value[1]) \in config]_vars

\* C8: the commits document only grows by appending: each step leaves the
\* earlier document as a prefix of the later one.
C8_CommitsAppendOnly ==
  [][IsPrefix(commits_file.json, commits_file'.json)]_vars

C8_Witness ==
  /\ cmd.name = "commit" /\ exit_code = 0
  /\ Len(commits_now) = 2
  /\ commits_now[1] # commits_now[2]

IsLowerHex(c) == (c >= 48 /\ c <= 57) \/ (c >= 97 /\ c <= 102)

\* C9: the commit handed to AddCommit has no hash; every stored commit has an
\* 8-character lowercase-hex hash, the digest prefix of its own timestamp text
\* followed by its message; a stored commit's hash never changes.
C9_CommitHash ==
  [][/\ \A i \in 1..Len(commits_file'.json) :
          LET d == commits_file'.json[i]
          IN  /\ d.commit_hash # None
              /\ Len(d.commit_hash[1]) = 8
              /\ \A j \in 1..8 : IsLowerHex(d.commit_hash[1][j])
              /\ d.commit_hash[1] = hexdigest8(d.timestamp \o d.message)
     /\ \A i \in 1..Len(commits_file.json) :
          /\ i <= Len(commits_file'.json)
          /\ commits_file'.json[i].commit_hash = commits_file.json[i].commit_hash
     /\ (Ran("commit") /\ exit_code' = 0) =>
          /\ result'.commit[1].commit_hash = None
          /\ result'.commit[2] = get_commits(commits_file')[Len(commits_file'.json)]]_vars

C9_Witness ==
  /\ cmd.name = "commit" /\ exit_code = 0
  /\ Len(commits_now) = 2
  /\ commits_now[1].message = commits_now[2].message
  /\ commits_now[1].milestones = commits_now[2].milestones
  /\ commits_now[1].timestamp # commits_now[2].timestamp
  /\ commits_now[1].commit_hash # commits_now[2].commit_hash

Min(a, b) == IF a < b THEN a ELSE b

\* C10: for limit >= 0 and a history of n commits, `log` lists the last
\* min(limit, n) commits, most recent first, and writes no document.
C10_LogListsLastLimit ==
  [][(Ran("log") /\ dir /\ cmd'.limit >= 0) =>
       LET n == Len(commits_now)
           k == Min(cmd'.limit, n)
       IN  /\ result'.commits = [i \in 1..k |-> commits_now[n + 1 - i]]
           /\ UNCHANGED documents]_vars
\* C11: in an initialized repository `add` appends exactly one milestone to
\* staging, "Daily progress" when --all is set or the message is ".", the given
\* (non-empty) message otherwise; without a message and without the flag it
\* exits 1 and leaves staging as it was.
C11_AddStagesOne ==
  [][(Ran("add") /\ dir) =>
       LET after == get_staged_milestones(staging_file')
           expected == IF cmd'.all \/ cmd'.message = Some(S_dot) THEN S_daily
                       ELSE cmd'.message[1]
       IN  IF cmd'.all \/ Truthy(cmd'.message)
           THEN /\ exit_code' = 0
                /\ Len(after) = Len(staged_now) + 1
                /\ SubSeq(after, 1, Len(staged_now)) = staged_now
                /\ after[Len(after)] = [message |-> expected, timestamp |-> clock, tags |-> << >>]
           ELSE /\ exit_code' = 1
                /\ UNCHANGED staging_file]_vars

\* `add .` staged "Daily progress" behind a milestone with a message of its own
C11_Witness ==
  /\ cmd.name = "add" /\ cmd.message = Some(S_dot) /\ ~cmd.all /\ exit_code = 0
  /\ Len(staged_now) = 2
  /\ staged_now[1].message = S_a
  /\ staged_now[2].message = S_daily
\* C13: `config` with key and value sets: the persisted configuration then maps
\* the dotted key to the value; with a key only it writes nothing and reports
\* the value at the dotted path, or an empty mapping when a segment of the path
\* is missing; with neither it reports the whole configuration and writes
\* nothing.
C13_ConfigCommand ==
  [][(Ran("config") /\ dir) =>
       LET config == get_config(config_file)
       IN  IF cmd'.key # None /\ cmd'.value # None
           THEN /\ exit_code' = 0
                /\ StrNode(split(cmd'.key[1]), cmd'.value[1]) \in get_config(config_file')
           ELSE IF cmd'.key # None
           THEN LET keys == split(cmd'.key[1])
                IN  /\ exit_code' = 0
                    /\ result'.raised = ""
                    /\ result'.value =
                         IF ~HasNode(config, keys) THEN MapValue({}, << >>)
                         ELSE IF NodeAt(config, keys).kind = "str"
                         THEN StrValue(NodeAt(config, keys).val)
                         ELSE MapValue(config, keys)
                    /\ UNCHANGED documents
           ELSE /\ exit_code' = 0
                /\ result'.value = MapValue(config, << >>)
                /\ UNCHANGED documents]_vars
\* C15: for a non-empty history and every days value, `stats` reports as Total
\* Commits the number of commits with timestamp >= now - days and as Total
\* Milestones the sum of their milestone counts, gives the average row only
\* when that number is not zero, and writes no document.
C15_StatsCounts ==
  [][(Ran("stats") /\ dir /\ commits_now # << >>) =>
       LET recent == SelectSeq(commits_now, LAMBDA x : x.timestamp >= clock - cmd'.days)
       IN  /\ exit_code' = 0
           /\ Len(result'.table) = IF Len(recent) # 0 THEN 3 ELSE 2
           /\ result'.table[1] = Len(recent)
           /\ result'.table[2] = SumLen(recent, 1)
           /\ UNCHANGED documents]_vars
\* the milestones of the stored commits, oldest commit first
RECURSIVE Committed(_, _)
Committed(cs, i) == IF i > Len(cs) THEN << >> ELSE cs[i].milestones \o Committed(cs, i + 1)

\* every milestone the repository holds: those of the history, then the staged
Held(sf, cf) == Committed(get_commits(cf), 1) \o get_staged_milestones(sf)

\* C16: with commands run one at a time, what the repository holds (the
\* milestones of the stored commits followed by the staged ones) grows by
\* exactly the milestone of each successful `add` and is changed by no other
\* command: every staged milestone is held exactly once, in staging or in one
\* commit.
C16_MilestonesConserved ==
  [][IF Ran("add") /\ dir /\ exit_code' = 0
     THEN Held(staging_file', commits_file') =
            Append(Held(staging_file, commits_file), result'.milestones[1])
     ELSE Held(staging_file', commits_file') = Held(staging_file, commits_file)]_vars

\* a milestone in the history and an equal one staged by a later add
C16_Witness ==
  /\ cmd.name = "add" /\ exit_code = 0
  /\ Len(commits_now) = 1
  /\ Len(staged_now) = 1
  /\ commits_now[1].milestones = staged_now
  /\ Held(staging_file, commits_file) = staged_now \o staged_now
\* m is one of the milestones of seq
In(m, seq) == \E i \in 1..Len(seq) : seq[i] = m

\* each milestone the commit of p read is in the staging document or in a
\* stored commit
Kept(p) ==
  \A i \in 1..Len(procs[p].staged) :
    \/ In(procs[p].staged[i], staged_now)
    \/ In(procs[p].staged[i], Committed(commits_now, 1))

\* C17: commit stores the commit before it clears staging: from the moment a
\* commit has read the staged milestones, every file access of a commit (its
\* own, the opens that empty a document included, or a retry's) and every stop
\* leaves each of them in the staging document or in a stored commit; a commit
\* that ends with exit code 0 has its commit stored.
C17_CommitNeverLoses ==
  [][\A p \in Procs :
       (/\ procs'[p].name = "commit"
        /\ \A q \in Procs : procs'[q].name = "add" => procs'[q] = procs[q]
        /\ Kept(p)) =>
         /\ Kept(p)'
         /\ (procs'[p].pc = "done" /\ procs'[p].exit_code = 0) =>
              In(procs'[p].commit[1], commits_now')]_vars

\* the first commit was stopped between its two writes and the second one,
\* the retry, stored the same milestones again
C17_Witness ==
  /\ procs[1].name = "commit" /\ procs[1].pc = "stopped"
  /\ procs[2].name = "commit" /\ procs[2].pc = "done" /\ procs[2].exit_code = 0
  /\ Len(procs[1].staged) = 2
  /\ staged_now = << >>
  /\ Len(commits_now) = 2
  /\ commits_now[1].milestones = procs[1].staged
  /\ commits_now[2].milestones = procs[1].staged
\* the add of p completed after the commit of q read staging and before that
\* commit cleared it: q holds what it read, p's milestone is not part of it
AddedDuringCommit(p, q) ==
  /\ procs[p].name = "add" /\ procs[p].pc = "done" /\ procs[p].exit_code = 0
  /\ procs[q].name = "commit"
  /\ procs[q].pc \in {"commit_read_commits", "commit_write", "commit_write_mid",
                      "commit_clear", "commit_clear_mid"}
  /\ \A i \in 1..Len(procs[p].milestone) : ~In(procs[p].milestone[i], procs[q].staged)

\* the milestone p's add staged is in no document
Lost(p) ==
  /\ procs[p].milestone # << >>
  /\ \A i \in 1..Len(procs[p].milestone) :
       /\ ~In(procs[p].milestone[i], staged_now)
       /\ ~In(procs[p].milestone[i], Committed(commits_now, 1))

\* C18: when an add completes after a concurrent commit has read the staging
\* document and before that commit clears it, then once the commit is done the
\* add's milestone is neither staged nor in any stored commit.
C18_AddDuringCommitIsLost ==
  \A p, q \in Procs :
    [](AddedDuringCommit(p, q) =>
         []((procs[q].pc = "done" /\ procs[q].exit_code = 0) => Lost(p)))

\* the add reported success, the commit stored the older milestone only, and
\* the added milestone is gone
C18_Witness ==
  /\ procs[1].name = "add" /\ procs[1].pc = "done" /\ procs[1].exit_code = 0
  /\ procs[1].milestone[1].message = S_a
  /\ procs[1].staged = <<Milestone(S_x, 0)>>
  /\ procs[2].name = "commit" /\ procs[2].pc = "done" /\ procs[2].exit_code = 0
  /\ staged_now = << >>
  /\ Len(commits_now) = 1
  /\ commits_now[1].milestones = <<Milestone(S_x, 0)>>
  /\ Lost(1)
\* C12: `push` without --remote, in a repository whose config has remote.url
\* empty or absent, exits 1 and never reaches "Pushing", whatever the history;
\* and no push, with or without a remote or commits, changes a document.
C12_PushNeedsRemote ==
  [][Ran("push") =>
       LET config == get_config(config_file)
           url == <<K_remote, K_url>>
           unset == \/ ~HasNode(config, url)
                    \/ NodeAt(config, url) = [path |-> url, kind |-> "str", val |-> << >>]
       IN  /\ UNCHANGED documents
           /\ (dir /\ cmd'.remote = None /\ unset) =>
                (exit_code' = 1 /\ ~In("Pushing", console'))]_vars

\* push refused in a repository with a history and no config document
C12_Witness ==
  /\ cmd.name = "push" /\ cmd.remote = None /\ exit_code = 1
  /\ dir /\ ~config_file.exists
  /\ Len(commits_now) >= 1

\* C14: with .gyt present and a document missing, the getters return the empty
\* sequence or mapping without error, and add_milestone, add_commit and
\* set_config succeed and leave a document holding exactly the one new item.
C14_AbsentIsEmpty ==
  [][dir =>
       /\ (Ran("Repository.get_staged_milestones") /\ ~staging_file.exists) =>
            (result'.raised = "" /\ result'.milestones = << >>)
       /\ (Ran("Repository.get_commits") /\ ~commits_file.exists) =>
            (result'.raised = "" /\ result'.commits = << >>)
       /\ (Ran("Repository.get_config") /\ ~config_file.exists) =>
            (result'.raised = "" /\ result'.value = [kind |-> "map", val |-> << >>, nodes |-> {}])
       /\ (Ran("Repository.add_milestone") /\ ~staging_file.exists) =>
            /\ result'.raised = ""
            /\ staging_file'.exists
            /\ get_staged_milestones(staging_file') = result'.milestones
            /\ Len(result'.milestones) = 1
       /\ (Ran("Repository.add_commit") /\ ~commits_file.exists) =>
            /\ result'.raised = ""
            /\ commits_file'.exists
            /\ get_commits(commits_file') = <<result'.commit[2]>>
            /\ result'.commit[2].message = result'.commit[1].message
            /\ result'.commit[2].milestones = result'.commit[1].milestones
       /\ (Ran("Repository.set_config") /\ ~config_file.exists) =>
            LET keys == split(cmd'.key[1])
            IN  /\ result'.raised = ""
                /\ config_file'.exists
                /\ config_file'.json =
                     {[path |-> SubSeq(keys, 1, i), kind |-> "map", val |-> << >>] :
                        i \in 1..(Len(keys) - 1)}
                     \cup {[path |-> keys, kind |-> "str", val |-> cmd'.value[1]]}]_vars

\* set_config("a.b", "x") created the config document while the commits
\* document is still missing
C14_Witness ==
  /\ cmd.name = "Repository.set_config" /\ result.raised = ""
  /\ dir /\ ~commits_file.exists
  /\ config_file = [exists |-> TRUE, bad |-> << >>,
                    json |-> {[path |-> <<S_a>>, kind |-> "map", val |-> << >>],
                              [path |-> <<S_a, <<98>>>>, kind |-> "str", val |-> S_x]}]

\* the frame every Repository call but set_config is said to keep
OtherCallsFrame ==
  /\ (Ran("Repository.add_milestone") \/ Ran("Repository.clear_staging")) =>
       UNCHANGED <<commits_file, config_file>>
  /\ Ran("Repository.add_commit") => UNCHANGED <<staging_file, config_file>>
  /\ (\/ Ran("Repository.is_initialized") \/ Ran("Repository.get_staged_milestones")
      \/ Ran("Repository.get_commits") \/ Ran("Repository.get_config")) =>
       UNCHANGED documents

\* C19 as stated: each Repository call writes only its own document, and
\* set_config changes no config entry that is not on the path of its dotted key
\* (the key's own entry and the mappings leading to it).
C19_OwnDocumentOnly ==
  [][/\ OtherCallsFrame
     /\ Ran("Repository.set_config") =>
          LET keys == split(cmd'.key[1])
              OffPath(n) == ~IsPrefix(n.path, keys)
          IN  /\ UNCHANGED <<staging_file, commits_file>>
              /\ {n \in get_config(config_file') : OffPath(n)} =
                   {n \in get_config(config_file) : OffPath(n)}]_vars

\* C19 amended: each Repository call writes only its own document, and
\* set_config changes no config entry that is neither on the path of its dotted
\* key nor below the key; a mapping the key held is replaced with all it held.
C19_OwnDocumentOnlyBelowKeyReplaced ==
  [][/\ OtherCallsFrame
     /\ Ran("Repository.set_config") =>
          LET keys == split(cmd'.key[1])
              Apart(n) == ~IsPrefix(n.path, keys) /\ ~IsPrefix(keys, n.path)
          IN  /\ UNCHANGED <<staging_file, commits_file>>
              /\ {n \in get_config(config_file') : Apart(n)} =
                   {n \in get_config(config_file) : Apart(n)}]_vars

\* set_config("a", "x") succeeded next to a configured remote.url, with a
\* milestone staged and a commit stored
C19_Witness ==
  /\ cmd.name = "Repository.set_config" /\ cmd.key = Some(S_a) /\ result.raised = ""
  /\ [path |-> <<S_a>>, kind |-> "str", val |-> S_x] \in config_file.json
  /\ [path |-> <<K_remote, K_url>>, kind |-> "str", val |-> S_x] \in config_file.json
  /\ [path |-> <<K_user, K_name>>, kind |-> "str", val |-> << >>] \in config_file.json
  /\ Len(staged_now) >= 1
  /\ Len(commits_now) >= 1
====
